---- MODULE Spec2Model ----
(***************************************************************************)
(* Model of the Eight Sleep integration: the stateless Gateway             *)
(* (EightSleepAPI, eightslp_api.py), the Session Manager (Client,          *)
(* eightslp_client.py) and the climate entity handlers that drive it       *)
(* (climate.py).  The repository holds two copies of the integration,      *)
(* components/eightslp and components/8slp; the variable `variant` says    *)
(* which copy is running, and every definition that differs between the    *)
(* copies branches on it.                                                  *)
(*                                                                         *)
(* Time is in seconds.  A Gateway call is one record appended to the       *)
(* running operation's `calls`; an operation is a set of possible runs     *)
(* (one per choice of service answers, failures and latencies), and an     *)
(* action commits one of them.                                             *)
(***************************************************************************)
EXTENDS Integers, Sequences, FiniteSets, TLC

VARIABLES
    variant,          \* which copy of the integration runs: "eightslp" | "8slp"
    phase,            \* "new" (no Client yet) | "ready" | "failed" (__init__ raised)
    now,              \* datetime.now(), in seconds
    refresh_token,    \* Client._refresh_token
    access_token,     \* Client._access_token
    expires_at,       \* Client._expires_at
    account_user_id,  \* Client._account_user_id
    bed_name,         \* Client._bed_name
    sides,            \* Client.sides, the class attribute: BedSide -> BedStatus
    last,             \* the last operation: its arguments, Gateway calls and outcome
    other,            \* the instance fields of a second Client of the same process
    threads           \* the refresh_state jobs on executor threads, one per entity

vars == <<variant, phase, now, refresh_token, access_token, expires_at,
          account_user_id, bed_name, sides, last, other, threads>>

(***************************************************************************)
(* Bounds                                                                  *)
(***************************************************************************)
MaxSteps == 3
Horizon == MaxSteps * 50

(***************************************************************************)
(* Program constants and enumerations                                      *)
(***************************************************************************)
SafetyMargin == 100

Variants == {"eightslp", "8slp"}
NoneV == "None"
Unset == "<unset>"
Left == "left"
Right == "right"
Both == "both"
BedSide == {Left, Right, Both}
On == "On"
Off == "Off"
BedPowerStatus == {On, Off}
HEAT_COOL == "heat_cool"
HVAC_OFF == "off"

Devices == {"dA", "dB"}

(***************************************************************************)
(* What the service may answer, per specification.  An environment E is a  *)
(* record of input sets: users (GET users/{id}), snaps (GET devices/{id}), *)
(* names (the device ids the household answer names), tokens and lifetimes *)
(* (POST tokens), oks (whether a request may be answered, may fail),       *)
(* delays (latency of one request), ticks (time between                    *)
(* operations), temps (targets commanded through the entity), rts and uids *)
(* (the constructor's refresh_token and user_id; NoneV is Python's None),   *)
(* rotated (the refresh_token the answer of POST tokens carries).          *)
(***************************************************************************)
\* the answers of GET devices/{id}: each level field ranges over its own set
RawDevices(heating, lt, lc, rt, rc) ==
    [leftNowHeating : heating, leftTargetHeatingLevel : lt,
     leftHeatingLevel : lc, leftHeatingDuration : {70},
     rightNowHeating : heating, rightTargetHeatingLevel : rt,
     rightHeatingLevel : rc, rightHeatingDuration : {90}]

DataEnv ==
    [users     |-> [current_device : {"dA"}, current_side : BedSide]
                   \cup {[current_device |-> "dB", current_side |-> Left]},
     snaps     |-> RawDevices(BOOLEAN, {42, -15}, {30}, {-60}, {55}),
     names     |-> {Devices, {"dA"}},
     tokens    |-> {"tokA"},
     oks       |-> {TRUE},
     lifetimes |-> {150},
     delays    |-> {0},
     ticks     |-> {Horizon},
     temps     |-> {-3, 7},
     rts       |-> {"rt"},
     uids      |-> {"u1"},
     rotated   |-> {"rt"}]

TokenEnv ==
    [users     |-> [current_device : {"dA"}, current_side : {Left}],
     snaps     |-> RawDevices({FALSE}, {42}, {30}, {-60}, {55}),
     names     |-> {Devices},
     tokens    |-> {"tokA"},
     oks       |-> {TRUE},
     lifetimes |-> {50, 150},
     delays    |-> {0, 50},
     ticks     |-> {50},
     temps     |-> {7},
     rts       |-> {"rt"},
     uids      |-> {"u1"},
     rotated   |-> {"rt"}]

CtorEnv ==
    [users     |-> [current_device : {"dA"}, current_side : {Left}],
     snaps     |-> RawDevices({FALSE}, {42}, {30}, {-60}, {55}),
     names     |-> {Devices},
     tokens    |-> {"tokA"},
     oks       |-> {TRUE},
     lifetimes |-> {150},
     delays    |-> {0},
     ticks     |-> {Horizon},
     temps     |-> {7},
     rts       |-> {"rt", NoneV},
     uids      |-> {"u1", NoneV},
     rotated   |-> {"rt"}]

\* any request may fail; the household answer may leave the device out; the
\* refresh answer may carry another refresh token than the one sent
FailEnv ==
    [users     |-> [current_device : {"dA"}, current_side : {Left, Right}],
     snaps     |-> RawDevices(BOOLEAN, {42}, {30}, {-60}, {55}),
     names     |-> {Devices, {"dB"}},
     tokens    |-> {"tokA"},
     oks       |-> BOOLEAN,
     lifetimes |-> {150},
     delays    |-> {0},
     ticks     |-> {Horizon},
     temps     |-> {7},
     rts       |-> {"rt"},
     uids      |-> {"u1"},
     rotated   |-> {"rt", "rt2"}]

\* two accounts: the constructor is given either user id
PairEnv ==
    [users     |-> { [current_device |-> "dA", current_side |-> Left],
                     [current_device |-> "dB", current_side |-> Right] },
     snaps     |-> RawDevices({TRUE}, {42}, {30}, {-60}, {55}),
     names     |-> {Devices},
     tokens    |-> {"tokA"},
     oks       |-> {TRUE},
     lifetimes |-> {150},
     delays    |-> {0},
     ticks     |-> {Horizon},
     temps     |-> {7},
     rts       |-> {"rt"},
     uids      |-> {"u1", "u2"},
     rotated   |-> {"rt"}]

\* the levels the service may report
Levels == -100 .. 100

\* v within Levels, wrapping at the upper end
Wrapped(v) == IF v > 100 THEN v - 201 ELSE v

\* every level is reported in some level field of some answer: the left target
\* covers -100..-34, the left level -33..33, the right target 34..100
LevelEnv ==
    [users     |-> [current_device : {"dA"}, current_side : {Left}],
     snaps     |-> { [leftNowHeating |-> FALSE, leftTargetHeatingLevel |-> v,
                      leftHeatingLevel |-> v + 67, leftHeatingDuration |-> 70,
                      rightNowHeating |-> FALSE,
                      rightTargetHeatingLevel |-> v + 134,
                      rightHeatingLevel |-> Wrapped(v + 144),
                      rightHeatingDuration |-> 90] : v \in -100 .. -34 },
     names     |-> {Devices},
     tokens    |-> {"tokA"},
     oks       |-> {TRUE},
     lifetimes |-> {150},
     delays    |-> {0},
     ticks     |-> {Horizon},
     temps     |-> {7},
     rts       |-> {"rt"},
     uids      |-> {"u1"},
     rotated   |-> {"rt"}]

(***************************************************************************)
(* eightslp_api.py: data structures                                        *)
(***************************************************************************)
\* (mutant) ties are rounded away from zero, as schoolbook rounding does
RoundTensHalfAway(x) ==
    IF x >= 0 THEN 10 * ((x + 5) \div 10) ELSE 0 - 10 * ((5 - x) \div 10)

\* round(x, -1) on a Python int: nearest multiple of 10, ties to the even one
RoundTens(x) ==
    LET q == x \div 10
        r == x % 10
    IN  IF r < 5 THEN 10 * q
        ELSE IF r > 5 THEN 10 * (q + 1)
        ELSE IF q % 2 = 0 THEN 10 * q ELSE 10 * (q + 1)

\* the NamedTuple is built positionally, in the order its fields are declared
GetDeviceResponse(v, a, b, c, d, e, f, g, h) ==
    IF v = "eightslp"
    THEN [left_status |-> a, left_target |-> b, left_current |-> c,
          left_duration |-> d, right_status |-> e, right_target |-> f,
          right_current |-> g, right_duration |-> h]
    ELSE [left_status |-> a, left_target |-> b, left_current |-> c,
          left_duration |-> d, right_status |-> e, right_target |-> f,
          right_duration |-> g, right_current |-> h]

\* the part of get_device after the request: the answer's result -> GetDeviceResponse
ParseDevice(v, dev) ==
    GetDeviceResponse(v,
        IF dev.leftNowHeating THEN On ELSE Off,
        RoundTens(dev.leftTargetHeatingLevel) \div 10,
        RoundTens(dev.leftHeatingLevel) \div 10,
        dev.leftHeatingDuration,
        IF dev.rightNowHeating THEN On ELSE Off,
        RoundTens(dev.rightTargetHeatingLevel) \div 10,
        RoundTens(dev.rightHeatingLevel) \div 10,
        dev.rightHeatingDuration)

NoUser == [current_device |-> "", current_side |-> ""]
NoRaw ==
    [leftNowHeating |-> FALSE, leftTargetHeatingLevel |-> 0,
     leftHeatingLevel |-> 0, leftHeatingDuration |-> 0,
     rightNowHeating |-> FALSE, rightTargetHeatingLevel |-> 0,
     rightHeatingLevel |-> 0, rightHeatingDuration |-> 0]

(***************************************************************************)
(* eightslp_api.py: the requests.  A request is                            *)
(*   kind, method, base ("auth" | "api" | "app"), path, the bearer token   *)
(*   (NoneV when the call carries none) and the JSON payload; keys is the  *)
(*   set of keys the payload object holds.                                 *)
(***************************************************************************)
Payload(keys, level, state, rt) ==
    [keys |-> keys, currentLevel |-> level, currentState |-> state,
     refresh_token |-> rt]
NoPayload == Payload({}, 0, "", "")

Request(kind, method, base, path, token, payload) ==
    [kind |-> kind, method |-> method, base |-> base, path |-> path,
     token |-> token, payload |-> payload]

set_temperature(user_id, temperature, auth_token, power_on) ==
    Request("set_temperature", "PUT", "app",
            "/users/" \o user_id \o "/temperature", auth_token,
            IF power_on
            THEN Payload({"currentLevel", "currentState"}, temperature * 10, "smart", "")
            ELSE Payload({"currentLevel"}, temperature * 10, "", ""))

turn_off(user_id, auth_token) ==
    Request("turn_off", "PUT", "api", "/users/" \o user_id \o "/temperature",
            auth_token, Payload({"currentState"}, 0, "off", ""))

turn_on(user_id, auth_token) ==
    Request("turn_on", "PUT", "app", "/users/" \o user_id \o "/temperature",
            auth_token, Payload({"currentState"}, 0, "smart", ""))

get_user(user_id, auth_token) ==
    Request("get_user", "GET", "api", "/users/" \o user_id, auth_token, NoPayload)

get_device(device_id, auth_token) ==
    Request("get_device", "GET", "api", "/devices/" \o device_id, auth_token,
            NoPayload)

get_device_names(user_id, auth_token) ==
    Request("get_device_names", "GET", "app",
            "/household/users/" \o user_id \o "/devices", auth_token, NoPayload)

refresh(rt) ==
    Request("refresh", "POST", "auth", "", NoneV,
            Payload({"refresh_token", "grant_type", "client_id", "client_secret"},
                    0, "", rt))

(***************************************************************************)
(* A run of an operation: the Client's fields, the clock, the calls issued *)
(* so far and what the operation holds in its locals.  ok = FALSE once an  *)
(* exception has been raised (err names it); nothing runs after that.      *)
(***************************************************************************)
Raise(rs, err) == [rs EXCEPT !.ok = FALSE, !.err = err]

\* (mutant) a request that failed is sent a second time
_send_request_retrying(rs, req, d, good) ==
    LET call == [req |-> req, start |-> rs.now, end |-> rs.now + d,
                 ok |-> good, expires_in |-> 0, refresh_token |-> ""]
        sent == [rs EXCEPT !.now = @ + d, !.calls = Append(@, call)]
    IN  IF good THEN sent
        ELSE Raise([sent EXCEPT !.calls = Append(@, call)], req.kind)

\* _send_request: one HTTP round trip taking d seconds; it returns the parsed
\* answer (good) or raises (transport failure, or an answer that does not parse)
_send_request(rs, req, d, good) ==
    LET call == [req |-> req, start |-> rs.now, end |-> rs.now + d,
                 ok |-> good, expires_in |-> 0, refresh_token |-> ""]
        sent == [rs EXCEPT !.now = @ + d, !.calls = Append(@, call)]
    IN  IF good THEN sent ELSE Raise(sent, req.kind)

(***************************************************************************)
(* eightslp_client.py: BedStatus and Client                                *)
(***************************************************************************)
BedStatus(side, status, temperature, user_id, target) ==
    [present |-> TRUE, side |-> side, status |-> status,
     temperature |-> temperature, user_id |-> user_id, target |-> target]

\* a key the sides dict does not hold
NoStatus ==
    [present |-> FALSE, side |-> "", status |-> Off, temperature |-> 0,
     user_id |-> "", target |-> 0]

\* (mutant) the constructor leaves the token valid for a while
InitialExpiryLate(t) == t + SafetyMargin

\* Client.__init__: the expiry the constructor sets
InitialExpiry(t) == t - SafetyMargin

\* Client.__init__: whether the constructor raises
ConstructorRaises(v, rt, uid) ==
    v = "8slp" /\ rt # NoneV /\ uid = NoneV

\* Client.__init__: the placeholder access token
Placeholder(v) == IF v = "eightslp" THEN "" ELSE NoneV

\* (mutant) the refresh keeps the whole reported lifetime, without the margin
RefreshTokenNoMargin(rs, E) ==
    { _send_request(rs, refresh(rs.refresh_token), d, FALSE)
      : d \in E.delays, good \in E.oks \ {TRUE} }
    \cup
    { LET sent == _send_request(rs, refresh(rs.refresh_token), r.d, TRUE)
          n    == Len(sent.calls)
      IN  [sent EXCEPT !.calls[n].expires_in = r.expires_in,
                       !.calls[n].refresh_token = r.refresh_token,
                       !.access_token = r.access_token,
                       !.expires_at = sent.now + r.expires_in]
      : r \in [access_token : E.tokens, expires_in : E.lifetimes,
               refresh_token : E.rotated, d : E.delays] }

\* (mutant) the cached token is dropped before the refresh request is made
RefreshTokenClearing(rs, E) ==
    { [_send_request(rs, refresh(rs.refresh_token), d, FALSE)
          EXCEPT !.access_token = ""]
      : d \in E.delays, good \in E.oks \ {TRUE} }
    \cup
    { LET sent == _send_request(rs, refresh(rs.refresh_token), r.d, TRUE)
          n    == Len(sent.calls)
      IN  [sent EXCEPT !.calls[n].expires_in = r.expires_in,
                       !.calls[n].refresh_token = r.refresh_token,
                       !.access_token = r.access_token,
                       !.expires_at = sent.now + (r.expires_in - SafetyMargin)]
      : r \in [access_token : E.tokens, expires_in : E.lifetimes,
               refresh_token : E.rotated, d : E.delays] }

\* Client._token, lines 126-128: the refresh call and the bookkeeping after it
RefreshToken(rs, E) ==
    { _send_request(rs, refresh(rs.refresh_token), d, FALSE)
      : d \in E.delays, good \in E.oks \ {TRUE} }
    \cup
    { LET sent == _send_request(rs, refresh(rs.refresh_token), r.d, TRUE)
          n    == Len(sent.calls)
      IN  [sent EXCEPT !.calls[n].expires_in = r.expires_in,
                       !.calls[n].refresh_token = r.refresh_token,
                       !.access_token = r.access_token,
                       !.expires_at = sent.now + (r.expires_in - SafetyMargin)]
      : r \in [access_token : E.tokens, expires_in : E.lifetimes,
               refresh_token : E.rotated, d : E.delays] }

\* (mutant) the token is refreshed on every use, expired or not
TokenAlwaysRefreshed(rs, E) == RefreshToken(rs, E)

\* Client._token: the runs that obtain the token; it is rs.access_token afterwards
_token(rs, E) ==
    IF rs.now > rs.expires_at THEN RefreshToken(rs, E) ELSE {rs}

\* a Gateway call that answers nothing the caller reads
Send(rs, req, E) ==
    { _send_request(rs, req, d, good) : d \in E.delays, good \in E.oks }

\* EightSleepAPI.get_user as called by the Client: user = the answer
GetUser(rs, E) ==
    LET req == get_user(rs.account_user_id, rs.access_token)
    IN  { _send_request(rs, req, d, FALSE)
          : d \in E.delays, good \in E.oks \ {TRUE} }
        \cup
        { [_send_request(rs, req, d, TRUE) EXCEPT !.user = u]
          : u \in E.users, d \in E.delays }

\* EightSleepAPI.get_device as called by the Client: device = the answer
GetDevice(rs, E) ==
    LET req == get_device(rs.user.current_device, rs.access_token)
    IN  { _send_request(rs, req, d, FALSE)
          : d \in E.delays, good \in E.oks \ {TRUE} }
        \cup
        { [_send_request(rs, req, d, TRUE) EXCEPT
              !.raw = dev, !.device = ParseDevice(rs.variant, dev)]
          : dev \in E.snaps, d \in E.delays }

BedName(device_id) == "bed-" \o device_id

\* EightSleepAPI.get_device_names and names[user.current_device]
GetNames(rs, E) ==
    LET req == get_device_names(rs.account_user_id, rs.access_token)
    IN  { _send_request(rs, req, d, FALSE)
          : d \in E.delays, good \in E.oks \ {TRUE} }
        \cup
        { LET got == _send_request(rs, req, d, TRUE)
          IN  IF rs.user.current_device \in named
              THEN [got EXCEPT !.bed_name = BedName(rs.user.current_device)]
              ELSE Raise(got, "KeyError")
          : named \in E.names, d \in E.delays }

GuestSide(current_side) == IF current_side = Right THEN Left ELSE Right

GuestUserId(device_id, guest_side) == "guest-" \o device_id \o "-" \o guest_side

\* Client.initialize, the assignments to self.sides
BindSides(rs) ==
    LET user   == rs.user
        device == rs.device
        guest_user_id ==
            GuestUserId(user.current_device, GuestSide(user.current_side))
        left(uid)  == BedStatus(Left, device.left_status, device.left_current,
                                uid, device.left_target)
        right(uid) == BedStatus(Right, device.right_status, device.right_current,
                                uid, device.right_target)
    IN  IF user.current_side = Left
        THEN [rs EXCEPT !.sides[Left] = left(rs.account_user_id),
                        !.sides[Right] = right(guest_user_id)]
        ELSE IF rs.variant = "eightslp"
        THEN [rs EXCEPT !.sides[Left] = left(guest_user_id),
                        !.sides[Right] = right(rs.account_user_id)]
        \* 8slp: BedSide.right is no member of the enum
        ELSE Raise([rs EXCEPT !.sides[Left] = left(guest_user_id)],
                   "AttributeError")

\* (mutant) refresh_state binds the sides again from the user it just read
UpdateSidesRebinding(rs) ==
    LET user   == rs.user
        device == rs.device
        guest_user_id ==
            GuestUserId(user.current_device, GuestSide(user.current_side))
        owner(side) == IF user.current_side = side THEN rs.account_user_id
                                                   ELSE guest_user_id
    IN  IF ~rs.sides[Right].present \/ ~rs.sides[Left].present
        THEN Raise(rs, "KeyError")
        ELSE [rs EXCEPT
                 !.sides[Right] = BedStatus(Right, device.right_status,
                     device.right_current, owner(Right), device.right_target),
                 !.sides[Left] = BedStatus(Left, device.left_status,
                     device.left_current, owner(Left), device.left_target)]

\* Client.refresh_state, the assignments to the two entries
UpdateSides(rs) ==
    LET device == rs.device
    IN  IF ~rs.sides[Right].present THEN Raise(rs, "KeyError")
        ELSE LET r1 == [rs EXCEPT !.sides[Right].status = device.right_status,
                                  !.sides[Right].temperature = device.right_current,
                                  !.sides[Right].target = device.right_target]
             IN  IF ~r1.sides[Left].present THEN Raise(r1, "KeyError")
                 ELSE [r1 EXCEPT !.sides[Left].status = device.left_status,
                                 !.sides[Left].temperature = device.left_current,
                                 !.sides[Left].target = device.left_target]

\* what follows a step: the runs of `next` after a run that did not raise,
\* the run itself after one that did
Then(r, next) == IF r.ok THEN next ELSE {r}

\* (mutant) initialize resolves the friendly name before the snapshot
initialize_names_first(rs, E) ==
    UNION { UNION { UNION { UNION { UNION {
        { IF r6.ok THEN BindSides(r6) ELSE r6
          : r6 \in Then(r5, GetDevice(r5, E)) }
        : r5 \in Then(r4, _token(r4, E)) }
        : r4 \in Then(r3, GetNames(r3, E)) }
        : r3 \in Then(r2, _token(r2, E)) }
        : r2 \in Then(r1, GetUser(r1, E)) }
        : r1 \in _token(rs, E) }

\* Client.initialize: every run of it from rs
initialize(rs, E) ==
    UNION { UNION { UNION { UNION { UNION {
        { IF r6.ok THEN BindSides(r6) ELSE r6
          : r6 \in Then(r5, GetNames(r5, E)) }
        : r5 \in Then(r4, _token(r4, E)) }
        : r4 \in Then(r3, GetDevice(r3, E)) }
        : r3 \in Then(r2, _token(r2, E)) }
        : r2 \in Then(r1, GetUser(r1, E)) }
        : r1 \in _token(rs, E) }

\* Client.refresh_state: every run of it from rs
refresh_state(rs, E) ==
    UNION { UNION { UNION {
        { IF r4.ok THEN UpdateSides(r4) ELSE r4
          : r4 \in Then(r3, GetDevice(r3, E)) }
        : r3 \in Then(r2, _token(r2, E)) }
        : r2 \in Then(r1, GetUser(r1, E)) }
        : r1 \in _token(rs, E) }

\* (mutant) power-on is sent when the side is already on
SendPowerOnSwapped(state) == state.status = On

\* Client.set_temp, line 119
SendPowerOn(state) == state.status = Off

\* (mutant) set_temp echoes the commanded target into the side's entry
set_temp_echo(rs, side, temperature, E) ==
    IF ~rs.sides[side].present THEN {Raise(rs, "KeyError")}
    ELSE UNION {
        { IF o.ok THEN [o EXCEPT !.sides[side].target = temperature] ELSE o
          : o \in Then(r1, Send(r1, set_temperature(rs.sides[side].user_id,
                                        temperature, r1.access_token,
                                        SendPowerOn(rs.sides[side])), E)) }
        : r1 \in _token(rs, E) }

\* Client.set_temp: every run of it from rs
set_temp(rs, side, temperature, E) ==
    IF ~rs.sides[side].present THEN {Raise(rs, "KeyError")}
    ELSE UNION {
        Then(r1, Send(r1, set_temperature(rs.sides[side].user_id, temperature,
                                          r1.access_token,
                                          SendPowerOn(rs.sides[side])), E))
        : r1 \in _token(rs, E) }

\* (mutant) the two branches of set_power are exchanged
PowerRequestSwapped(user_id, target_state, auth_token) ==
    IF target_state = Off THEN turn_on(user_id, auth_token)
                          ELSE turn_off(user_id, auth_token)

\* Client.set_power, lines 134-137: the Gateway call the target state selects
PowerRequest(user_id, target_state, auth_token) ==
    IF target_state = Off THEN turn_off(user_id, auth_token)
                          ELSE turn_on(user_id, auth_token)

\* Client.set_power: every run of it from rs
set_power(rs, side, target_state, E) ==
    IF ~rs.sides[side].present THEN {Raise(rs, "KeyError")}
    ELSE UNION {
        Then(r1, Send(r1, PowerRequest(rs.sides[side].user_id, target_state,
                                       r1.access_token), E))
        : r1 \in _token(rs, E) }

(***************************************************************************)
(* climate.py: what the entity reads back after a handler                  *)
(***************************************************************************)
_update_status(status) ==
    LET mode == IF status.status = On THEN HEAT_COOL ELSE HVAC_OFF
    IN  [read |-> TRUE,
         target_temperature |-> status.target,
         current_temperature |-> status.temperature,
         hvac_mode |-> mode,
         hvac_action |-> IF mode = HEAT_COOL
                         THEN IF status.target = status.temperature THEN "idle"
                              ELSE IF status.target > status.temperature
                                   THEN "heating" ELSE "cooling"
                         ELSE "off"]

\* the handler raised before _update_status ran
NoRead ==
    [read |-> FALSE, target_temperature |-> 0, current_temperature |-> 0,
     hvac_mode |-> HVAC_OFF, hvac_action |-> "off"]

\* async_set_hvac_mode: the power state an HVAC mode stands for
TargetState(hvac_mode) == IF hvac_mode = HEAT_COOL THEN On ELSE Off

(***************************************************************************)
(* The state machine                                                       *)
(***************************************************************************)
\* the record of an operation: which Client ran it (client, 1 or 2), what was
\* called with which arguments (refresh_token
\* and user_id are the constructor's), the clock, expiry and token it started
\* with (t0, exp0, token0), the Gateway calls it issued, how it ended, the answers
\* it read (user, raw), the GetDeviceResponse made of raw (device) and what the
\* entity read back after it (read)
NoOp ==
    [op |-> "none", client |-> 1, side |-> "", temperature |-> 0,
     target_state |-> "",
     refresh_token |-> "", user_id |-> "", t0 |-> 0, exp0 |-> 0, token0 |-> "",
     ok |-> TRUE, err |-> "", calls |-> <<>>, user |-> NoUser, raw |-> NoRaw,
     device |-> ParseDevice("eightslp", NoRaw), read |-> NoRead]

\* no second Client has been constructed
NoClient ==
    [phase |-> "new", refresh_token |-> Unset, access_token |-> Unset,
     expires_at |-> 0, account_user_id |-> Unset, bed_name |-> Unset]

\* the state of one refresh_state job: where it stands (pc), the answers it
\* holds in its locals (res, user, device), the expires_at its last expired
\* check compared the clock with (seen) and the Gateway calls it issued
IdleJob ==
    [pc |-> "idle", res |-> [access_token |-> "", expires_in |-> 0],
     user |-> NoUser, device |-> ParseDevice("eightslp", NoRaw),
     seen |-> <<>>, calls |-> <<>>, err |-> ""]

NoJobs == [e \in {Left, Right} |-> IdleJob]

Init ==
    /\ variant \in Variants
    /\ phase = "new"
    /\ now = 0
    /\ refresh_token = Unset
    /\ access_token = Unset
    /\ expires_at = 0
    /\ account_user_id = Unset
    /\ bed_name = Unset
    /\ sides = [s \in {Left, Right} |-> NoStatus]
    /\ last = NoOp
    /\ other = NoClient
    /\ threads = NoJobs

\* the run an operation starts from
Cur ==
    [variant |-> variant, now |-> now, refresh_token |-> refresh_token,
     access_token |-> access_token, expires_at |-> expires_at,
     account_user_id |-> account_user_id, bed_name |-> bed_name,
     sides |-> sides, calls |-> <<>>, ok |-> TRUE, err |-> "",
     user |-> NoUser, raw |-> NoRaw, device |-> ParseDevice(variant, NoRaw)]

\* the handler's self._update_status(self._client.sides[self._side]), which runs
\* when the Client's operation returned
ReadBack(o, side) == IF o.ok THEN _update_status(o.sides[side]) ELSE NoRead

\* the operation `what` ends as run o: the Client keeps what o left in its fields
Commit(o, what) ==
    /\ o.now <= Horizon
    /\ now' = o.now
    /\ access_token' = o.access_token
    /\ expires_at' = o.expires_at
    /\ bed_name' = o.bed_name
    /\ sides' = o.sides
    /\ last' = [what EXCEPT !.t0 = now, !.exp0 = expires_at,
                            !.token0 = access_token, !.ok = o.ok, !.err = o.err,
                            !.calls = o.calls, !.user = o.user, !.raw = o.raw,
                            !.device = o.device]
    /\ refresh_token' = o.refresh_token
    /\ UNCHANGED <<variant, phase, account_user_id, other, threads>>

\* Client(refresh_token, user_id)
Construct(E) ==
    /\ phase = "new"
    /\ \E rt \in E.rts, uid \in E.uids :
          LET what == [NoOp EXCEPT !.op = "construct", !.refresh_token = rt,
                                   !.user_id = uid, !.t0 = now]
          IN  IF ConstructorRaises(variant, rt, uid)
              THEN /\ phase' = "failed"
                   /\ last' = [what EXCEPT !.ok = FALSE, !.err = "Exception"]
                   /\ UNCHANGED <<refresh_token, access_token, expires_at,
                                  account_user_id>>
              ELSE /\ phase' = "ready"
                   /\ refresh_token' = rt
                   /\ access_token' = Placeholder(variant)
                   /\ expires_at' = InitialExpiry(now)
                   /\ account_user_id' = uid
                   /\ last' = what
    /\ UNCHANGED <<variant, now, bed_name, sides, other, threads>>

\* async_setup_entry, after the Client is built: client.initialize()
Initialize(E) ==
    /\ phase = "ready"
    /\ \E o \in initialize(Cur, E) :
          Commit(o, [NoOp EXCEPT !.op = "initialize"])

\* EightSleepClimate.async_update of the entity of `side`
async_update(E) ==
    /\ phase = "ready"
    /\ \E o \in refresh_state(Cur, E) : \E side \in {Left, Right} :
          Commit(o, [NoOp EXCEPT !.op = "refresh_state", !.side = side,
                                 !.read = ReadBack(o, side)])

\* EightSleepClimate.async_set_temperature of the entity of `side`
async_set_temperature(E) ==
    /\ phase = "ready"
    /\ \E side \in {Left, Right}, temperature \in E.temps :
       \E o \in set_temp(Cur, side, temperature, E) :
          Commit(o, [NoOp EXCEPT !.op = "set_temp", !.side = side,
                                 !.temperature = temperature,
                                 !.read = ReadBack(o, side)])

\* EightSleepClimate.async_set_hvac_mode of the entity of `side`
async_set_hvac_mode(E) ==
    /\ phase = "ready"
    /\ \E side \in {Left, Right}, hvac_mode \in {HEAT_COOL, HVAC_OFF} :
       \E o \in set_power(Cur, side, TargetState(hvac_mode), E) :
          Commit(o, [NoOp EXCEPT !.op = "set_power", !.side = side,
                                 !.target_state = TargetState(hvac_mode),
                                 !.read = ReadBack(o, side)])

(***************************************************************************)
(* A second Client of the same process (a second config entry)             *)
(***************************************************************************)
\* self.sides of either instance: no instance assigns the attribute, so the
\* lookup falls through to the one dict of the class
SidesOf(client) == sides

\* the run an operation of the second Client starts from
Cur2 ==
    [variant |-> variant, now |-> now, refresh_token |-> other.refresh_token,
     access_token |-> other.access_token, expires_at |-> other.expires_at,
     account_user_id |-> other.account_user_id, bed_name |-> other.bed_name,
     sides |-> SidesOf(2), calls |-> <<>>, ok |-> TRUE, err |-> "",
     user |-> NoUser, raw |-> NoRaw, device |-> ParseDevice(variant, NoRaw)]

\* the operation `what` of the second Client ends as run o
Commit2(o, what) ==
    /\ o.now <= Horizon
    /\ now' = o.now
    /\ other' = [other EXCEPT !.access_token = o.access_token,
                              !.expires_at = o.expires_at,
                              !.bed_name = o.bed_name,
                              !.refresh_token = o.refresh_token]
    /\ sides' = o.sides
    /\ last' = [what EXCEPT !.client = 2, !.t0 = now, !.exp0 = other.expires_at,
                            !.token0 = other.access_token, !.ok = o.ok,
                            !.err = o.err, !.calls = o.calls, !.user = o.user,
                            !.raw = o.raw, !.device = o.device]
    /\ UNCHANGED <<variant, phase, refresh_token, access_token, expires_at,
                   account_user_id, bed_name, threads>>

\* Client(refresh_token, user_id) for another account than the first Client's
Construct2(E) ==
    /\ phase = "ready"
    /\ other.phase = "new"
    /\ \E rt \in E.rts, uid \in E.uids \ {account_user_id} :
          /\ ~ConstructorRaises(variant, rt, uid)
          /\ other' = [phase |-> "ready", refresh_token |-> rt,
                       access_token |-> Placeholder(variant),
                       expires_at |-> InitialExpiry(now),
                       account_user_id |-> uid, bed_name |-> Unset]
          /\ last' = [NoOp EXCEPT !.op = "construct", !.client = 2,
                                  !.refresh_token = rt, !.user_id = uid,
                                  !.t0 = now]
    /\ UNCHANGED <<variant, phase, now, refresh_token, access_token, expires_at,
                   account_user_id, bed_name, sides, threads>>

\* async_setup_entry of the second config entry: client.initialize()
Initialize2(E) ==
    /\ other.phase = "ready"
    /\ \E o \in initialize(Cur2, E) :
          Commit2(o, [NoOp EXCEPT !.op = "initialize"])

\* EightSleepClimate.async_update of an entity of the second config entry
async_update2(E) ==
    /\ other.phase = "ready"
    /\ \E o \in refresh_state(Cur2, E) : \E side \in {Left, Right} :
          Commit2(o, [NoOp EXCEPT !.op = "refresh_state", !.side = side,
                                  !.read = ReadBack(o, side)])

(***************************************************************************)
(* refresh_state as an executor job, statement by statement.  The two      *)
(* entities of one Client each submit their own job; the jobs share the    *)
(* Client's fields and interleave between any two statements.              *)
(***************************************************************************)
RaceEnv ==
    [users     |-> [current_device : {"dA"}, current_side : {Left}],
     snaps     |-> RawDevices({TRUE}, {42}, {30}, {-60}, {55}),
     names     |-> {Devices},
     tokens    |-> {"tokA"},
     oks       |-> {TRUE},
     lifetimes |-> {150},
     delays    |-> {0},
     ticks     |-> {Horizon},
     temps     |-> {7},
     rts       |-> {"rt"},
     uids      |-> {"u1"},
     rotated   |-> {"rt"}]

\* the statement that follows the _token() call made at `pc`
AfterToken(pc) == IF pc \in {"check1", "refresh1", "token1", "expiry1"}
                  THEN "get_user" ELSE "get_device"

\* the job statements inside the refresh branch of _token, lines 126-128
InRefresh == {"refresh1", "token1", "expiry1", "refresh2", "token2", "expiry2"}

\* the job of entity e moves to pc
Goto(e, pc) == [threads EXCEPT ![e].pc = pc]

\* the job of entity e issues a Gateway call that is answered or fails
Called(job, req, good) ==
    [job EXCEPT !.calls = Append(@, [req |-> req, start |-> now, end |-> now,
                                     ok |-> good, expires_in |-> 0,
                                     refresh_token |-> ""])]

\* the job ends by an exception
Failed(job, err) == [job EXCEPT !.pc = "idle", !.err = err]

\* (mutant) _token is entered under a lock held from the check to the store
TokenEntryLocked(e) == \A f \in {Left, Right} \ {e} : threads[f].pc \notin InRefresh

\* Client._token, line 124: the method is entered without taking any lock
TokenEntry(e) == TRUE

\* async_update, line 82: the entity submits self._client.refresh_state
Submit(e) ==
    /\ phase = "ready"
    /\ sides[e].present
    /\ threads[e].pc = "idle"
    /\ threads' = [threads EXCEPT ![e] = [IdleJob EXCEPT !.pc = "check1"]]
    /\ UNCHANGED <<variant, phase, now, refresh_token, access_token, expires_at,
                   account_user_id, bed_name, sides, last, other>>

\* Client._token, line 125: if datetime.now() > self._expires_at
CheckExpiry(e) ==
    /\ threads[e].pc \in {"check1", "check2"}
    /\ TokenEntry(e)
    /\ LET k == IF threads[e].pc = "check1" THEN "1" ELSE "2"
       IN  IF now > expires_at
           THEN threads' = [threads EXCEPT ![e].pc = "refresh" \o k,
                                           ![e].seen = Append(@, expires_at)]
           ELSE threads' = Goto(e, AfterToken(threads[e].pc))
    /\ UNCHANGED <<variant, phase, now, refresh_token, access_token, expires_at,
                   account_user_id, bed_name, sides, last, other>>

\* Client._token, line 126: res = EightSleepAPI.refresh(self._refresh_token)
CallRefresh(e, E) ==
    /\ threads[e].pc \in {"refresh1", "refresh2"}
    /\ LET k == IF threads[e].pc = "refresh1" THEN "1" ELSE "2"
           job == threads[e]
           n == Len(job.calls) + 1
       IN  \/ \E r \in [access_token : E.tokens, expires_in : E.lifetimes] :
                threads' = [threads EXCEPT ![e] =
                    [Called(job, refresh(refresh_token), TRUE) EXCEPT
                        !.calls[n].expires_in = r.expires_in,
                        !.res = r, !.pc = "token" \o k]]
           \/ /\ FALSE \in E.oks
              /\ threads' = [threads EXCEPT ![e] =
                    Failed(Called(job, refresh(refresh_token), FALSE), "refresh")]
    /\ UNCHANGED <<variant, phase, now, refresh_token, access_token, expires_at,
                   account_user_id, bed_name, sides, last, other>>

\* Client._token, line 127: self._access_token = res.access_token
StoreToken(e) ==
    /\ threads[e].pc \in {"token1", "token2"}
    /\ access_token' = threads[e].res.access_token
    /\ threads' = Goto(e, IF threads[e].pc = "token1" THEN "expiry1" ELSE "expiry2")
    /\ UNCHANGED <<variant, phase, now, refresh_token, expires_at,
                   account_user_id, bed_name, sides, last, other>>

\* Client._token, line 128: self._expires_at = now + (res.expires_in - 100)
StoreExpiry(e) ==
    /\ threads[e].pc \in {"expiry1", "expiry2"}
    /\ expires_at' = now + (threads[e].res.expires_in - SafetyMargin)
    /\ threads' = Goto(e, AfterToken(threads[e].pc))
    /\ UNCHANGED <<variant, phase, now, refresh_token, access_token,
                   account_user_id, bed_name, sides, last, other>>

\* refresh_state, line 107: _token returns self._access_token (line 129) and
\* get_user is called with it
CallGetUser(e, E) ==
    /\ threads[e].pc = "get_user"
    /\ LET job == threads[e]
           req == get_user(account_user_id, access_token)
       IN  \/ \E u \in E.users :
                threads' = [threads EXCEPT ![e] =
                    [Called(job, req, TRUE) EXCEPT !.user = u, !.pc = "check2"]]
           \/ /\ FALSE \in E.oks
              /\ threads' = [threads EXCEPT ![e] =
                    Failed(Called(job, req, FALSE), "get_user")]
    /\ UNCHANGED <<variant, phase, now, refresh_token, access_token, expires_at,
                   account_user_id, bed_name, sides, last, other>>

\* refresh_state, line 108: _token returns self._access_token and get_device
\* is called with it
CallGetDevice(e, E) ==
    /\ threads[e].pc = "get_device"
    /\ LET job == threads[e]
           req == get_device(job.user.current_device, access_token)
       IN  \/ \E dev \in E.snaps :
                threads' = [threads EXCEPT ![e] =
                    [Called(job, req, TRUE) EXCEPT
                        !.device = ParseDevice(variant, dev), !.pc = "right"]]
           \/ /\ FALSE \in E.oks
              /\ threads' = [threads EXCEPT ![e] =
                    Failed(Called(job, req, FALSE), "get_device")]
    /\ UNCHANGED <<variant, phase, now, refresh_token, access_token, expires_at,
                   account_user_id, bed_name, sides, last, other>>

\* refresh_state, lines 109-111: the Right entry
WriteRight(e) ==
    /\ threads[e].pc = "right"
    /\ LET device == threads[e].device
       IN  IF ~sides[Right].present
           THEN /\ threads' = [threads EXCEPT ![e] = Failed(@, "KeyError")]
                /\ UNCHANGED sides
           ELSE /\ sides' = [sides EXCEPT ![Right].status = device.right_status,
                                          ![Right].temperature = device.right_current,
                                          ![Right].target = device.right_target]
                /\ threads' = Goto(e, "left")
    /\ UNCHANGED <<variant, phase, now, refresh_token, access_token, expires_at,
                   account_user_id, bed_name, last, other>>

\* refresh_state, lines 112-114: the Left entry; the job is done
WriteLeft(e) ==
    /\ threads[e].pc = "left"
    /\ LET device == threads[e].device
       IN  IF ~sides[Left].present
           THEN /\ threads' = [threads EXCEPT ![e] = Failed(@, "KeyError")]
                /\ UNCHANGED sides
           ELSE /\ sides' = [sides EXCEPT ![Left].status = device.left_status,
                                         ![Left].temperature = device.left_current,
                                         ![Left].target = device.left_target]
                /\ threads' = Goto(e, "idle")
    /\ UNCHANGED <<variant, phase, now, refresh_token, access_token, expires_at,
                   account_user_id, bed_name, last, other>>

\* time passes between operations
Tick(E) ==
    /\ \E d \in E.ticks : now + d <= Horizon /\ now' = now + d
    /\ UNCHANGED <<variant, phase, refresh_token, access_token, expires_at,
                   account_user_id, bed_name, sides, last, other, threads>>

Next ==
    \/ Construct(DataEnv)
    \/ Initialize(DataEnv)
    \/ async_update(DataEnv)
    \/ async_set_temperature(DataEnv)
    \/ async_set_hvac_mode(DataEnv)
    \/ Tick(DataEnv)

Spec == Init /\ [][Next]_vars

TokenNext ==
    \/ Construct(TokenEnv)
    \/ Initialize(TokenEnv)
    \/ async_update(TokenEnv)
    \/ async_set_temperature(TokenEnv)
    \/ async_set_hvac_mode(TokenEnv)
    \/ Tick(TokenEnv)

TokenSpec == Init /\ [][TokenNext]_vars

CtorNext ==
    \/ Construct(CtorEnv)
    \/ Initialize(CtorEnv)
    \/ async_update(CtorEnv)
    \/ async_set_temperature(CtorEnv)
    \/ async_set_hvac_mode(CtorEnv)
    \/ Tick(CtorEnv)

CtorSpec == Init /\ [][CtorNext]_vars

FailNext ==
    \/ Construct(FailEnv)
    \/ Initialize(FailEnv)
    \/ async_update(FailEnv)
    \/ async_set_temperature(FailEnv)
    \/ async_set_hvac_mode(FailEnv)
    \/ Tick(FailEnv)

FailSpec == Init /\ [][FailNext]_vars

PairNext ==
    \/ Construct(PairEnv)
    \/ Initialize(PairEnv)
    \/ async_update(PairEnv)
    \/ async_set_temperature(PairEnv)
    \/ async_set_hvac_mode(PairEnv)
    \/ Tick(PairEnv)
    \/ Construct2(PairEnv)
    \/ Initialize2(PairEnv)
    \/ async_update2(PairEnv)

PairSpec == Init /\ [][PairNext]_vars

RaceNext ==
    \/ Construct(RaceEnv)
    \/ Initialize(RaceEnv)
    \/ Tick(RaceEnv)
    \/ \E e \in {Left, Right} :
          \/ Submit(e)
          \/ CheckExpiry(e)
          \/ CallRefresh(e, RaceEnv)
          \/ StoreToken(e)
          \/ StoreExpiry(e)
          \/ CallGetUser(e, RaceEnv)
          \/ CallGetDevice(e, RaceEnv)
          \/ WriteRight(e)
          \/ WriteLeft(e)

RaceSpec == Init /\ [][RaceNext]_vars

LevelNext ==
    \/ Construct(LevelEnv)
    \/ Initialize(LevelEnv)
    \/ async_update(LevelEnv)
    \/ async_set_temperature(LevelEnv)
    \/ async_set_hvac_mode(LevelEnv)
    \/ Tick(LevelEnv)

LevelSpec == Init /\ [][LevelNext]_vars

(***************************************************************************)
(* Reading the record of the last operation                                *)
(***************************************************************************)
Operations == {"initialize", "refresh_state", "set_temp", "set_power"}
CallIdx == DOMAIN last.calls
IsRefresh(i) == last.calls[i].req.kind = "refresh"
RefreshIdx == { i \in CallIdx : IsRefresh(i) }
\* the calls that carry the bearer token
AuthIdx == CallIdx \ RefreshIdx
\* an authenticated call whose token came from the cache, not from a refresh
\* issued for it
CachedIdx == { j \in AuthIdx : j = 1 \/ ~IsRefresh(j - 1) }
MaxOf(S) == CHOOSE m \in S : \A x \in S : x <= m
\* the successful refreshes of the operation before its call i
RefreshedBefore(i) == { m \in RefreshIdx : m < i /\ last.calls[m].ok }
\* the time the service's token runs out, as reported by refresh call m
LifetimeEnd(m) == last.calls[m].end + last.calls[m].expires_in
\* the expires_at in force when call i of the operation starts
ExpBefore(i) ==
    IF RefreshedBefore(i) = {} THEN last.exp0
    ELSE LifetimeEnd(MaxOf(RefreshedBefore(i))) - 100
PlaceholderTokens == {"", NoneV, Unset}
UserPath(user_id) == "/users/" \o user_id \o "/temperature"

(***************************************************************************)
(* C1 (TokenSpec)                                                          *)
(***************************************************************************)
\* no refresh call is issued while the token in force has not expired
NoRefreshBeforeExpiry ==
    \A i \in RefreshIdx : last.calls[i].start > ExpBefore(i)

\* every token acquisition made after expiry issues exactly one refresh:
\* a cached token is used only while not expired, and a refresh that
\* succeeded is followed by the call it was issued for
OneRefreshPerExpiredAcquisition ==
    /\ \A j \in CachedIdx : last.calls[j].start <= ExpBefore(j)
    /\ \A i \in RefreshIdx :
          IF last.calls[i].ok THEN i + 1 \in AuthIdx ELSE i = Len(last.calls)

\* C1 as stated: while now < expires_at no refresh call is issued, and the
\* first operation that runs after expiry issues exactly one refresh call,
\* whatever lifetime the service reports
C1_AsStated ==
    (last.op \in Operations /\ last.calls # <<>>) =>
        /\ NoRefreshBeforeExpiry
        /\ (last.t0 > last.exp0 => Cardinality(RefreshIdx) = 1)

\* C1 amended: while now <= expires_at no refresh call is issued; every token
\* acquisition made after expiry issues exactly one refresh call; and an
\* operation that starts after expiry issues exactly one refresh call in all
\* when the expires_at that refresh sets (refresh time + lifetime - 100) is
\* not earlier than the start of the operation's last call
C1_RefreshOncePerExpiry ==
    (last.op \in Operations /\ last.calls # <<>>) =>
        /\ NoRefreshBeforeExpiry
        /\ OneRefreshPerExpiredAcquisition
        /\ ((/\ last.t0 > last.exp0
             /\ last.calls[1].ok
             /\ LifetimeEnd(1) - 100 >= last.calls[Len(last.calls)].start)
            => Cardinality(RefreshIdx) = 1)

\* initialize ran after expiry, obtained the token three times and refreshed once
C1_Witness ==
    /\ last.op = "initialize" /\ last.ok
    /\ last.t0 > last.exp0
    /\ Len(last.calls) = 4
    /\ RefreshIdx = {1}

(***************************************************************************)
(* C9 (TokenSpec)                                                          *)
(***************************************************************************)
\* C9: construction leaves the token expired: while the Client holds the
\* placeholder token the token is expired, an operation that starts with the
\* placeholder issues a refresh as its first Gateway call, and no
\* authenticated call carries the placeholder
C9_PlaceholderNeverSent ==
    /\ (phase = "ready" /\ access_token \in PlaceholderTokens) => now > expires_at
    /\ (last.op = "construct" /\ last.ok) => now > expires_at
    /\ (last.op \in Operations /\ last.token0 \in PlaceholderTokens
        /\ last.calls # <<>>) => 1 \in RefreshIdx
    /\ \A j \in AuthIdx : last.calls[j].req.token \notin PlaceholderTokens

\* the first operation after construction ran and its calls carried a real token
C9_Witness ==
    /\ last.op = "initialize" /\ last.ok
    /\ last.token0 \in PlaceholderTokens
    /\ \E j \in AuthIdx : last.calls[j].req.token = "tokA"

(***************************************************************************)
(* C10 (TokenSpec)                                                         *)
(***************************************************************************)
\* C10: after a successful refresh that reported lifetime L, expires_at is the
\* time the refresh returned plus (L - 100); a cached token is handed to a
\* Gateway call only at times not later than the expires_at in force, so at
\* least 100 seconds before the reported lifetime ends
C10_MarginBeforeLifetimeEnd ==
    /\ \A m \in RefreshIdx :
          (last.calls[m].ok /\ \A k \in RefreshIdx : k <= m)
              => expires_at = LifetimeEnd(m) - 100
    /\ \A j \in CachedIdx :
          IF RefreshedBefore(j) = {}
          THEN last.calls[j].start <= last.exp0
          ELSE last.calls[j].start + 100 <= LifetimeEnd(MaxOf(RefreshedBefore(j)))
    /\ (last.op \in Operations /\ RefreshIdx = {}) => expires_at = last.exp0

\* an operation refreshed, then handed the cached token to a later call after
\* time had passed
C10_Witness ==
    /\ last.op = "refresh_state" /\ last.ok
    /\ RefreshIdx = {1}
    /\ last.calls[1].expires_in = 150
    /\ last.calls[3].start > last.calls[1].end

(***************************************************************************)
(* C4 (TokenSpec)                                                          *)
(***************************************************************************)
\* the power call set_power is to issue: turn-off for Off, turn-on for On, a
\* PUT on the temperature resource of the side's owning_user_id
IsPowerCall(c) ==
    /\ c.req.kind = (IF last.target_state = Off THEN "turn_off" ELSE "turn_on")
    /\ c.req.method = "PUT"
    /\ c.req.path = UserPath(sides[last.side].user_id)
    /\ c.req.payload.keys = {"currentState"}
    /\ c.req.payload.currentState =
           (IF last.target_state = Off THEN "off" ELSE "smart")

\* C4 as stated: set_power issues the turn-off / turn-on call and, token valid
\* or expired, no other Gateway call
C4_AsStated ==
    (last.op = "set_power" /\ sides[last.side].present) =>
        /\ Len(last.calls) = 1
        /\ IsPowerCall(last.calls[1])

\* C4 amended: set_power issues the turn-off / turn-on call for the side's
\* owning_user_id; the only other Gateway call it triggers is one token
\* refresh, issued before the power call exactly when the token has expired
\* (now > expires_at); when that refresh fails no power call follows
C4_PowerCallAndRefreshOnly ==
    (last.op = "set_power" /\ sides[last.side].present) =>
        LET n == Len(last.calls)
        IN  /\ RefreshIdx = (IF last.t0 > last.exp0 THEN {1} ELSE {})
            /\ n = Cardinality(RefreshIdx) + 1 \/ (n = 1 /\ ~last.calls[1].ok)
            /\ \A j \in AuthIdx : /\ j = n
                                  /\ IsPowerCall(last.calls[j])
                                  /\ last.calls[j].req.token = access_token

\* set_power ran with the token expired: a refresh, then the turn-off call
C4_Witness ==
    /\ last.op = "set_power" /\ last.ok
    /\ last.target_state = Off
    /\ last.t0 > last.exp0
    /\ Len(last.calls) = 2
    /\ last.calls[2].req.kind = "turn_off"

(***************************************************************************)
(* C2 (Spec)                                                               *)
(***************************************************************************)
OtherSide(c) == IF c = Left THEN Right ELSE Left

\* the three Gateway reads of initialize were answered and named the device
InitializeAnswered ==
    /\ last.op = "initialize"
    /\ last.err \notin {"refresh", "get_user", "get_device", "get_device_names",
                        "KeyError"}

\* C2: after initialize() with the authenticated user reported on side c in
\* {Left, Right}, the side map holds one entry for Left and one for Right with
\* distinct owners: side c carries account_user_id, the other side the guest
\* id guest-{device_id}-{name of the other side}
C2_AsStated ==
    (InitializeAnswered /\ last.user.current_side \in {Left, Right}) =>
        LET c == last.user.current_side
        IN  /\ last.ok
            /\ sides[Left].present /\ sides[Left].side = Left
            /\ sides[Right].present /\ sides[Right].side = Right
            /\ sides[Left].user_id # sides[Right].user_id
            /\ sides[c].user_id = account_user_id
            /\ sides[OtherSide(c)].user_id =
                   "guest-" \o last.user.current_device \o "-" \o OtherSide(c)

(***************************************************************************)
(* C3 (Spec)                                                               *)
(***************************************************************************)
\* C3: set_temp(side, T) issues exactly one set_temperature write, addressed
\* to the side's owning_user_id; its payload carries currentLevel = 10*T and,
\* exactly when the side's in-memory power is Off, the smart power-on state
C3_SetTempPayload ==
    (last.op = "set_temp" /\ sides[last.side].present) =>
        LET W == { j \in CallIdx : last.calls[j].req.kind = "set_temperature" }
            state == sides[last.side]
        IN  /\ AuthIdx = W
            /\ Cardinality(W) <= 1
            /\ last.ok => Cardinality(W) = 1
            /\ \A j \in W :
                  LET req == last.calls[j].req
                  IN  /\ j = Len(last.calls)
                      /\ req.method = "PUT"
                      /\ req.path = UserPath(state.user_id)
                      /\ req.payload.currentLevel = 10 * last.temperature
                      /\ IF state.status = Off
                         THEN /\ req.payload.keys = {"currentLevel", "currentState"}
                              /\ req.payload.currentState = "smart"
                         ELSE req.payload.keys = {"currentLevel"}

\* set_temp on a side that is Off sent the target together with the power-on
C3_Witness ==
    /\ last.op = "set_temp" /\ last.ok
    /\ sides[last.side].status = Off
    /\ last.temperature = 7
    /\ last.calls[Len(last.calls)].req.payload.currentLevel = 70
    /\ last.calls[Len(last.calls)].req.payload.currentState = "smart"
    /\ last.calls[Len(last.calls)].req.path = "/users/guest-dA-right/temperature"

(***************************************************************************)
(* C5 (Spec)                                                               *)
(***************************************************************************)
\* the public temperature of a reported level
PublicTemp(level) == RoundTens(level) \div 10

\* C5: after a successful initialize() or refresh_state(), each side's entry
\* holds the snapshot's power, current heating level and target heating level
\* of that same side
C5_AsStated ==
    (last.op \in {"initialize", "refresh_state"} /\ last.ok) =>
        /\ sides[Left].status = (IF last.raw.leftNowHeating THEN On ELSE Off)
        /\ sides[Left].temperature = PublicTemp(last.raw.leftHeatingLevel)
        /\ sides[Left].target = PublicTemp(last.raw.leftTargetHeatingLevel)
        /\ sides[Right].status = (IF last.raw.rightNowHeating THEN On ELSE Off)
        /\ sides[Right].temperature = PublicTemp(last.raw.rightHeatingLevel)
        /\ sides[Right].target = PublicTemp(last.raw.rightTargetHeatingLevel)

(***************************************************************************)
(* C6 (Spec)                                                               *)
(***************************************************************************)
\* C6: refresh_state, set_temp and set_power never change the owning_user_id
\* of the Left or of the Right entry, nor add or drop an entry
C6_OwnersFixed ==
    [][last'.op \in {"refresh_state", "set_temp", "set_power"} =>
          \A s \in {Left, Right} :
              /\ sides'[s].user_id = sides[s].user_id
              /\ sides'[s].present = sides[s].present
              /\ sides'[s].side = sides[s].side]_vars

\* refresh_state succeeded while the service reported the user on the Right
\* side of another device, and Left is still the account's side of device dA
C6_Witness ==
    /\ last.op = "refresh_state" /\ last.ok
    /\ last.user.current_device = "dB"
    /\ sides[Left].user_id = "u1"
    /\ sides[Right].user_id = "guest-dA-right"

(***************************************************************************)
(* C7 (CtorSpec)                                                           *)
(***************************************************************************)
\* C7: constructing the Client with user_id None fails, whatever the
\* refresh_token, before any Gateway call
C7_AsStated ==
    (last.op = "construct" /\ last.user_id = NoneV) =>
        /\ ~last.ok
        /\ phase = "failed"
        /\ last.calls = <<>>

(***************************************************************************)
(* C8 (Spec)                                                               *)
(***************************************************************************)
\* C8: set_temp and set_power leave both entries of the side map as they
\* were, and the _update_status that follows the write reads the pre-write
\* power, current temperature and target temperature of the entity's side
C8_WritesLeaveStateStale ==
    [][last'.op \in {"set_temp", "set_power"} =>
          /\ sides' = sides
          /\ last'.ok =>
                LET before == sides[last'.side]
                IN  /\ last'.read.read
                    /\ last'.read.target_temperature = before.target
                    /\ last'.read.current_temperature = before.temperature
                    /\ last'.read.hvac_mode =
                          (IF before.status = On THEN HEAT_COOL ELSE HVAC_OFF)]_vars

\* a successful set_temp on a side that is Off, after which the entity still
\* reads the side as off with its old target
C8_Witness ==
    /\ last.op = "set_temp" /\ last.ok
    /\ last.temperature = 7
    /\ last.read.read
    /\ last.read.hvac_mode = HVAC_OFF
    /\ last.read.target_temperature # 7
    /\ sides[last.side].status = Off

(***************************************************************************)
(* C11 (LevelSpec)                                                         *)
(***************************************************************************)
Abs(x) == IF x < 0 THEN 0 - x ELSE x

\* the multiple of 10 nearest to x, the even multiple when two are equally near
NearestTen(x) ==
    CHOOSE m \in { 10 * k : k \in -11 .. 11 } :
        /\ Abs(x - m) <= 5
        /\ Abs(x - m) = 5 => (m \div 10) % 2 = 0

\* the values get_device made of the four reported levels, paired with the
\* levels: its 2nd, 3rd, 6th and 7th positional arguments.  The 7th lands in
\* the field the copy declares seventh (right_current in eightslp,
\* right_duration in 8slp).
ConvertedLevels ==
    { <<last.raw.leftTargetHeatingLevel, last.device.left_target>>,
      <<last.raw.leftHeatingLevel, last.device.left_current>>,
      <<last.raw.rightTargetHeatingLevel, last.device.right_target>>,
      <<last.raw.rightHeatingLevel,
        IF variant = "eightslp" THEN last.device.right_current
                                ELSE last.device.right_duration>> }

GetDeviceAnswered ==
    \E i \in CallIdx : last.calls[i].req.kind = "get_device" /\ last.calls[i].ok

\* C11: get_device turns every reported heating level and target level in
\* -100..100 into the multiple of 10 nearest to it (the even multiple on a
\* tie) divided by 10, an integer in -10..10
C11_LevelsToPublic ==
    GetDeviceAnswered =>
        \A p \in ConvertedLevels :
            /\ p[1] \in Levels
            /\ 10 * p[2] = NearestTen(p[1])
            /\ p[2] \in -10 .. 10

\* the service reported -89, -22, 45 and 55: the ties went to 4 and to 6
C11_Witness ==
    /\ last.op = "refresh_state" /\ last.ok
    /\ ConvertedLevels = { <<-89, -9>>, <<-22, -2>>, <<45, 4>>, <<55, 6>> }
    /\ sides[Left].target = -9 /\ sides[Left].temperature = -2
    /\ sides[Right].target = 4

(***************************************************************************)
(* C12 (FailSpec)                                                          *)
(***************************************************************************)
\* C12: when a Gateway call of initialize, refresh_state, set_temp or
\* set_power fails (the token refresh included), the operation ends with that
\* call's failure surfaced, the failed call is the last call it issued, and
\* the request of the failed call was issued once
C12_FailureEndsOperation ==
    last.op \in Operations =>
        \A i \in CallIdx :
            ~last.calls[i].ok =>
                /\ i = Len(last.calls)
                /\ ~last.ok
                /\ last.err = last.calls[i].req.kind
                /\ ~last.read.read
                /\ \A j \in CallIdx :
                       last.calls[j].req = last.calls[i].req => ~(j < i /\ ~last.calls[j].ok)

\* initialize refreshed the token and read the user, then get_device failed
C12_Witness ==
    /\ last.op = "initialize" /\ ~last.ok
    /\ last.err = "get_device"
    /\ Len(last.calls) = 3
    /\ last.calls[1].ok /\ last.calls[2].ok /\ ~last.calls[3].ok

(***************************************************************************)
(* C13 (Spec)                                                              *)
(***************************************************************************)
Writes == {"set_temperature", "turn_on", "turn_off"}

\* C13: every write the Gateway issues (set_temperature, turn_on, turn_off)
\* is a PUT to the app-API endpoint {app}/users/{user_id}/temperature of the
\* side's owner and carries the bearer token
C13_AsStated ==
    last.op \in {"set_temp", "set_power"} =>
        \A i \in CallIdx :
            last.calls[i].req.kind \in Writes =>
                /\ last.calls[i].req.method = "PUT"
                /\ last.calls[i].req.base = "app"
                /\ last.calls[i].req.path = UserPath(sides[last.side].user_id)
                /\ last.calls[i].req.token = access_token
                /\ last.calls[i].req.token \notin PlaceholderTokens

(***************************************************************************)
(* C14 (FailSpec)                                                          *)
(***************************************************************************)
NotRefresh(c) == c.req.kind # "refresh"

\* the kinds of the authenticated calls of an operation, in the order issued
Kinds(calls) ==
    LET auth == SelectSeq(calls, NotRefresh)
    IN  [i \in DOMAIN auth |-> auth[i].req.kind]

IsPrefix(a, b) == Len(a) <= Len(b) /\ \A i \in DOMAIN a : a[i] = b[i]

\* every call of the operation was answered
AllAnswered(calls) == \A i \in DOMAIN calls : calls[i].ok

\* the get_device call of the operation asks for the device get_user reported
DeviceOfUser(op) ==
    \A i \in DOMAIN op.calls :
        op.calls[i].req.kind = "get_device" =>
            op.calls[i].req.path = "/devices/" \o op.user.current_device

\* C14: initialize() issues get_user, get_device (for the user's current
\* device), get_device_names in this order and writes to the side map only
\* after all three were answered; refresh_state() issues get_user then
\* get_device, never get_device_names, and writes only after both were answered
C14_CallOrder ==
    [][/\ last'.op = "initialize" =>
            /\ IsPrefix(Kinds(last'.calls),
                        <<"get_user", "get_device", "get_device_names">>)
            /\ DeviceOfUser(last')
            /\ sides' # sides =>
                   /\ Len(Kinds(last'.calls)) = 3
                   /\ AllAnswered(last'.calls)
       /\ last'.op = "refresh_state" =>
            /\ IsPrefix(Kinds(last'.calls), <<"get_user", "get_device">>)
            /\ DeviceOfUser(last')
            /\ sides' # sides =>
                   /\ Len(Kinds(last'.calls)) = 2
                   /\ AllAnswered(last'.calls)]_vars

\* initialize issued its three reads in order and bound both sides
C14_Witness ==
    /\ last.op = "initialize" /\ last.ok
    /\ Kinds(last.calls) = <<"get_user", "get_device", "get_device_names">>
    /\ last.calls[3].req.path = "/devices/dA"
    /\ sides[Left].present /\ sides[Right].present

(***************************************************************************)
(* C15 (FailSpec)                                                          *)
(***************************************************************************)
\* C15: an initialize() or refresh_state() that ends in a failure leaves the
\* side map exactly as it was before the call
C15_AsStated ==
    [][(last'.op \in {"initialize", "refresh_state"} /\ ~last'.ok)
          => sides' = sides]_vars

(***************************************************************************)
(* C16 (FailSpec)                                                          *)
(***************************************************************************)
\* the operation op ended in a failed token refresh
RefreshFailed(op) ==
    /\ op.op \in Operations
    /\ op.calls # <<>>
    /\ op.calls[Len(op.calls)].req.kind = "refresh"
    /\ ~op.calls[Len(op.calls)].ok

\* the successful refreshes among the calls of op
Refreshed(op) ==
    { m \in DOMAIN op.calls : op.calls[m].req.kind = "refresh" /\ op.calls[m].ok }

\* C16: a failed token refresh leaves access_token and expires_at as they
\* were before it (as the operation found them or, when an earlier refresh of
\* the same operation succeeded, as that refresh set them), so the token is
\* still expired and the next operation that reaches the Gateway starts with
\* a refresh; no operation changes refresh_token, whatever refresh token the
\* service returns, and every refresh sends the constructor's refresh_token
C16_FailedRefreshKeepsToken ==
    [][/\ RefreshFailed(last') =>
            /\ IF Refreshed(last') = {}
               THEN access_token' = last'.token0 /\ expires_at' = last'.exp0
               ELSE LET m == MaxOf(Refreshed(last'))
                    IN  /\ access_token' = last'.calls[m + 1].req.token
                        /\ expires_at' = last'.calls[m].end
                                          + last'.calls[m].expires_in - 100
            /\ now' > expires_at'
       /\ (RefreshFailed(last) /\ last' # last /\ last'.calls # <<>>)
            => last'.calls[1].req.kind = "refresh"
       /\ phase = "ready" => refresh_token' = refresh_token
       /\ \A i \in DOMAIN last'.calls :
            last'.calls[i].req.kind = "refresh" =>
                last'.calls[i].req.payload.refresh_token = refresh_token']_vars

\* a refresh failed while the Client held the token of an earlier refresh
C16_Witness ==
    /\ RefreshFailed(last)
    /\ last.token0 = "tokA" /\ access_token = "tokA"
    /\ expires_at = last.exp0 /\ now > expires_at
    /\ refresh_token = "rt"

(***************************************************************************)
(* C17 (PairSpec)                                                          *)
(***************************************************************************)
OtherClient(c) == IF c = 1 THEN 2 ELSE 1

\* the Client has gone through initialize() up to the binding of its sides
Initialized(c) == IF c = 1 THEN bed_name # Unset ELSE other.bed_name # Unset

\* C17: with two Clients constructed for different accounts, initialize() or
\* refresh_state() on one of them never changes the entries (owner ids, power,
\* temperatures) read through the other, initialized, Client
C17_AsStated ==
    [][(/\ phase = "ready" /\ other.phase = "ready"
        /\ account_user_id # other.account_user_id
        /\ last'.op \in {"initialize", "refresh_state"}
        /\ Initialized(OtherClient(last'.client)))
          => SidesOf(OtherClient(last'.client))' = SidesOf(OtherClient(last'.client))]_vars

(***************************************************************************)
(* C18 (RaceSpec)                                                          *)
(***************************************************************************)
\* the refresh calls the job of entity e has issued
JobRefreshes(e) ==
    { i \in DOMAIN threads[e].calls : threads[e].calls[i].req.kind = "refresh" }

\* C18: nothing serialises the jobs in _token: a job that stands at the expiry
\* check can always take it, also while the other job is between its own
\* check and its store of the new expiry; and every job whose check found the
\* token expired issues a refresh call of its own
C18_NoLockAroundRefresh ==
    \A e \in {Left, Right} :
        /\ threads[e].pc \in {"check1", "check2"} => ENABLED CheckExpiry(e)
        /\ Cardinality(JobRefreshes(e)) =
               Len(threads[e].seen)
               - (IF threads[e].pc \in {"refresh1", "refresh2"} THEN 1 ELSE 0)

\* both jobs found the same expiry passed and each has issued its refresh call
\* before either stored a new token: two refresh calls for one expiry
C18_Witness ==
    /\ threads[Left].pc = "token1" /\ threads[Right].pc = "token1"
    /\ threads[Left].seen = <<expires_at>>
    /\ threads[Right].seen = <<expires_at>>
    /\ Cardinality(JobRefreshes(Left)) = 1
    /\ Cardinality(JobRefreshes(Right)) = 1
    /\ now > expires_at

====
